---- MODULE Spec2Model ----
(***************************************************************************)
(* Model of the TextInput component (Learn/learn.framerfx/code/            *)
(* TextInput.tsx): a React function component holding a state object       *)
(* {value, valid, typing, focused}, a ref inputValue, and debounce timers  *)
(* armed by handleInput.  Every handler is a closure of the render that    *)
(* created it: it reads that render's `state` and props.  An event handler *)
(* always belongs to the latest render; a setTimeout callback belongs to   *)
(* the render in which its keystroke was handled.                          *)
(* One event (a handler with the render it causes) is one step.  The       *)
(* passive effects of a render with new props run in a later step, or       *)
(* inside the first handler that calls setState before they have run.       *)
(* The component is enabled (disabled = false).                             *)
(***************************************************************************)
EXTENDS Integers, Sequences, FiniteSets, TLC

VARIABLES
    phase,      \* "rendered" (first render committed, its effects pending), "mounted", "unmounted"
    props,      \* the props of the latest render
    state,      \* React.useState value of the latest render
    inputValue, \* inputValue.current (React.useRef)
    timers,     \* pending setTimeout callbacks, in arming order
    domFocus,   \* whether the <input> element has focus (environment)
    steps,      \* number of events of the environment handled so far
    updates,    \* number of prop updates so far
    lastOp,     \* the last event handled, with the callbacks it invoked
    burst,      \* observer of the current burst of keystrokes
    twin,       \* the same component with timer cancellation, fed the same events
    pending,    \* the effects of the latest render that have not run yet
    flushAt     \* when React runs pending effects: "setState" (16.8) or "render" (16.9 on)

vars == <<phase, props, state, inputValue, timers, domFocus, steps, updates, lastOp, burst, twin,
         pending, flushAt>>

(* ------------------------------- bounds -------------------------------- *)

MaxSteps == 3
MaxBurstSteps == 6
MaxUpdates == 1

(* ------------------------------- values -------------------------------- *)

\* Text is a sequence of characters; `undefined` is a value of its own.
Undefined == <<"undefined">>
Strings == { <<>>, <<"a">>, <<"a", "b", "c">> }
Values == Strings \cup {Undefined}

\* The `value` prop a parent passes: absent (the default), empty, or a text.
PropValues == { Undefined, <<>>, <<"a", "b", "c">> }

\* JavaScript truthiness of a string-or-undefined value.
Truthy(v) == v /= Undefined /\ v /= <<>>

\* The text the controlled <input> shows: value={value || ""}.
Display(v) == IF Truthy(v) THEN v ELSE <<>>

\* Validator functions a parent may pass as the `validation` prop:
\* "any" is the default v => true, "min3" is v => v.length >= 3.
Validators == {"any", "min3"}
\* The `delay` prop in seconds: 0 validates in the keystroke's own event.
Delays == {0, 1}

validation(f, v) ==
    CASE f = "any" -> TRUE
      [] f = "min3" -> Len(v) >= 3

\* v => v.length >= 3 raises a TypeError on undefined.
Throws(f, v) == f = "min3" /\ v = Undefined

\* Every render evaluates validation(initialValue) (the argument of
\* useState), so props on which it throws are never rendered.
PropsSet ==
    { p \in [value : PropValues, required : BOOLEAN, validation : Validators,
             readOnly : BOOLEAN, clearable : BOOLEAN, delay : Delays] :
        ~Throws(p.validation, p.value) }

(* ------------------------------ callbacks ------------------------------ *)

Call(fn, value, valid) == [fn |-> fn, value |-> value, valid |-> valid]
InputStart == Call("onInputStart", Undefined, FALSE)

\* The record of an event: its kind, which branch it took, the callbacks it
\* invoked in order, and (for a timer) whether a later keystroke had arrived.
Op(kind, tag, out, stale) == [kind |-> kind, tag |-> tag, out |-> out, stale |-> stale]

(* ------------------------------ functions ------------------------------ *)

\* const validate = value =>
\*   value && value.length > 0 ? validation(value || initialValue) : !required
validate(value, p) ==
    IF Truthy(value) /\ Len(value) > 0
    THEN validation(p.validation, IF Truthy(value) THEN value ELSE p.value)
    ELSE ~p.required

\* React.useState({value: initialValue, valid: validation(initialValue), ...})
InitialState(p) ==
    [value |-> p.value, valid |-> validation(p.validation, p.value),
     typing |-> FALSE, focused |-> FALSE]

\* useEffect(..., [initialValue]): the state it sets
EffectValue(s, p) ==
    [s EXCEPT !.value = p.value, !.valid = validate(s.value, p)]

\* useEffect(..., [validation, required]): the state it sets
EffectRevalidate(s, p) ==
    [s EXCEPT !.valid = validate(s.value, p)]

\* The dependency lists [initialValue] and [validation, required].  The
\* validation prop is compared by identity: `fresh` says that the parent
\* passed a new function object (which may behave as the old one).
ValueChanged(p, q) == q.value /= p.value
CheckChanged(p, q, fresh) ==
    fresh \/ q.validation /= p.validation \/ q.required /= p.required

\* The effects a render schedules: which of the two have changed dependencies.
NoEffects == [value |-> FALSE, check |-> FALSE]
Effects(p, q, fresh) ==
    [value |-> ValueChanged(p, q), check |-> CheckChanged(p, q, fresh)]
HasEffects(e) == e.value \/ e.check

\* The first render schedules both effects.
MountEffects == [value |-> TRUE, check |-> TRUE]

EffectsRun(e) ==
    IF e.value /\ e.check THEN "both"
    ELSE IF e.value THEN "value"
    ELSE IF e.check THEN "check"
    ELSE "none"

\* inputValue.current after the effects e have run: inputValue.current = initialValue
RefAfterEffects(ref, p, e) == IF e.value THEN p.value ELSE ref

\* Both effects close over the same render's state and each calls setState
\* with a whole object, so the last setState of the flush is the new state.
RunEffects(s, p, valueChanged, checkChanged) ==
    IF checkChanged THEN EffectRevalidate(s, p)
    ELSE IF valueChanged THEN EffectValue(s, p)
    ELSE s

\* setFocus with the two callbacks swapped
FocusCallsSwapped(focused, s) ==
    IF focused THEN << Call("onBlur", s.value, s.valid) >>
    ELSE << Call("onFocus", s.value, s.valid) >>

\* setFocus: props.onFocus(state.value, state.valid) or props.onBlur(...)
FocusCalls(focused, s) ==
    IF focused THEN << Call("onFocus", s.value, s.valid) >>
    ELSE << Call("onBlur", s.value, s.valid) >>

\* setFocus: setState({ ...state, focused })
FocusNext(focused, s) == [s EXCEPT !.focused = focused]

\* handleClear without the readOnly guard
ClearNextAlways(s, p) == [s EXCEPT !.value = Undefined]

\* handleClear: if (readOnly) return; setState({ ...state, value: undefined })
ClearNext(s, p) ==
    IF p.readOnly THEN s ELSE [s EXCEPT !.value = Undefined]

\* handleInput: if (!state.typing) { onInputStart() }
InputStartCalls(s) == IF ~s.typing THEN <<InputStart>> ELSE <<>>

\* handleInput: setState({ ...state, value, typing: true })
InputNext(value, s) == [s EXCEPT !.value = value, !.typing = TRUE]

\* updateState without the comparison against inputValue.current
UpdateStateMatchesAlways(value, ref) == TRUE

\* updateState: if (value === inputValue.current)
UpdateStateMatches(value, ref) == value = ref

\* updateState: const valid = value ? validate(value) : !required
UpdateStateValid(value, p) ==
    IF Truthy(value) THEN validate(value, p) ELSE ~p.required

\* updateState: setState({ ...state, typing: false, value, valid })
UpdateStateNext(value, s, p) ==
    [s EXCEPT !.typing = FALSE, !.value = value,
              !.valid = UpdateStateValid(value, p)]

\* updateState: onValueChange(value, valid)
UpdateStateCalls(value, p) ==
    << Call("onValueChange", value, UpdateStateValid(value, p)) >>

(* ------------------------------- timers -------------------------------- *)

\* setTimeout(() => updateState(value), delay * 1000): the callback keeps
\* the value, and the state and props of the render that armed it.  `stale`
\* records that a later keystroke has arrived since.
Timer(value, s, p) == [value |-> value, state |-> s, props |-> p, stale |-> FALSE]

MarkStale(seq) == [i \in DOMAIN seq |-> [seq[i] EXCEPT !.stale = TRUE]]

\* A timer armed later elapses before one armed earlier only if its delay
\* is shorter.
CanFire(i) ==
    \A j \in 1..(i - 1) : timers[i].props.delay < timers[j].props.delay

Remove(seq, i) == SubSeq(seq, 1, i - 1) \o SubSeq(seq, i + 1, Len(seq))

(* --------------------------- burst observer ---------------------------- *)

\* A burst starts at a keystroke handled with no timer pending and goes on
\* while each keystroke arrives with the previous keystroke's timer pending
\* and nothing but keystrokes and timer fires happens.
NoBurst == [clean |-> FALSE, last |-> Undefined, calls |-> <<>>]

BurstKey(v) ==
    IF props.delay > 0 /\ timers = <<>>
    THEN [clean |-> TRUE, last |-> v, calls |-> <<>>]
    ELSE IF props.delay > 0 /\ burst.clean /\ ~timers[Len(timers)].stale
    THEN [burst EXCEPT !.last = v]
    ELSE NoBurst

BurstFire(out) == IF burst.clean THEN [burst EXCEPT !.calls = burst.calls \o out] ELSE NoBurst

BurstOther == NoBurst


(* ------------------------------ handlers ------------------------------- *)

\* Each handler is a function of the component c = [state, inputValue] it
\* runs in, the props p of the latest render and the effects e of that
\* render that have not run yet.  Where React runs pending effects at the
\* first setState, the effects run inside the handler, before its own state
\* update is queued: the handler's setState is then the last and decides the
\* state, while the effect's write of inputValue.current stays.

\* setFocus(focused)
FocusStep(c, focused, p, e) ==
    [state |-> FocusNext(focused, c.state),
     inputValue |-> RefAfterEffects(c.inputValue, p, e),
     out |-> FocusCalls(focused, c.state),
     tag |-> ""]

\* handleInput(event): inputValue.current = value comes before the first
\* setState, updateState(value) (delay = 0) after it.
InputStep(c, value, p, e) ==
    LET ref == RefAfterEffects(value, p, e)
        start == InputStartCalls(c.state)
    IN  IF p.delay > 0
        THEN [state |-> InputNext(value, c.state), inputValue |-> ref,
              out |-> start, tag |-> "timer"]
        ELSE IF UpdateStateMatches(value, ref)
        THEN [state |-> UpdateStateNext(value, c.state, p), inputValue |-> ref,
              out |-> start \o UpdateStateCalls(value, p), tag |-> "sync"]
        ELSE [state |-> InputNext(value, c.state), inputValue |-> ref,
              out |-> start, tag |-> "miss"]

\* How the tap on the clear button reaches handleClear: dispatched by React
\* as a React event, or called from a listener of the gesture library on the
\* DOM, outside React (Interactive passes onTap on; its code decides).
Deliveries == {"react", "native"}

\* handleClear(event).  Called outside React it is, like a timer callback,
\* no React event: with order "render" pending effects run before the
\* render its setState causes, and their update is queued last.
ClearStep(c, p, e, order, by) ==
    [state |-> IF ~p.readOnly /\ by = "native" /\ HasEffects(e) /\ order = "render"
               THEN RunEffects(c.state, p, e.value, e.check)
               ELSE ClearNext(c.state, p),
     inputValue |-> IF p.readOnly THEN c.inputValue
                    ELSE RefAfterEffects(c.inputValue, p, e),
     out |-> <<>>,
     tag |-> ""]

\* The change event with effects pending and order "render": React runs the
\* effects and renders before it dispatches the event, so handleInput is the
\* handler of that render and sees the state the effects have set.
BeforeInput(c, p, e, order) ==
    IF HasEffects(e) /\ order = "render"
    THEN [state |-> RunEffects(c.state, p, e.value, e.check),
          inputValue |-> RefAfterEffects(c.inputValue, p, e)]
    ELSE [state |-> c.state, inputValue |-> c.inputValue]

\* The effects still pending when that handleInput runs.
EffectsInInput(e, order) == IF order = "render" THEN NoEffects ELSE e

\* The callback of timer t: updateState(t.value) of the arming render.  It is
\* not a React event: pending effects run at its setState (order "setState",
\* its own update is queued last) or before the render its setState causes
\* (order "render", the effects' update is queued last).  After the unmount
\* setState has no effect.
TimerStep(c, t, p, e, order, mounted) ==
    IF ~UpdateStateMatches(t.value, c.inputValue)
    THEN [state |-> c.state, inputValue |-> c.inputValue, out |-> <<>>,
          tag |-> "miss"]
    ELSE [state |-> IF ~mounted THEN c.state
                    ELSE IF HasEffects(e) /\ order = "render"
                    THEN RunEffects(c.state, p, e.value, e.check)
                    ELSE UpdateStateNext(t.value, t.state, t.props),
          inputValue |-> RefAfterEffects(c.inputValue, p, e),
          out |-> UpdateStateCalls(t.value, t.props),
          tag |-> "hit"]

\* The pending effects run on their own.
FlushStep(c, p, e) ==
    [state |-> RunEffects(c.state, p, e.value, e.check),
     inputValue |-> RefAfterEffects(c.inputValue, p, e),
     out |-> <<>>,
     tag |-> EffectsRun(e)]

(* ---------------------- the cancelling component ---------------------- *)

\* The variant of section 5 of the specification: the same handlers, but
\* handleInput cancels the timer of the previous keystroke.  Its record holds
\* its state, its inputValue.current, its pending timer (at most one) and
\* the callbacks its last event invoked.
TwinInit(p) ==
    [state |-> InitialState(p), inputValue |-> p.value, timers |-> <<>>, out |-> <<>>]

TwinSet(t, r) ==
    [t EXCEPT !.state = r.state, !.inputValue = r.inputValue, !.out = r.out]

TwinEffects(t, p, e) == TwinSet(t, FlushStep(t, p, e))

TwinFocus(t, focused, p, e) == TwinSet(t, FocusStep(t, focused, p, e))

TwinInput(t, value, p, e, order) ==
    LET c == BeforeInput(t, p, e, order)
    IN  [TwinSet(t, InputStep(c, value, p, EffectsInInput(e, order))) EXCEPT
            !.timers = IF p.delay > 0 THEN << Timer(value, c.state, p) >> ELSE <<>>]

\* The timer that fires in the component was cancelled in the twin when a
\* later keystroke had arrived; otherwise it is the twin's pending timer.
\* Effects that run in the component's step run in the twin's too.
TwinTimer(t, cancelled, flushed, p, e, order, mounted) ==
    IF cancelled \/ t.timers = <<>>
    THEN IF flushed THEN TwinEffects(t, p, e) ELSE [t EXCEPT !.out = <<>>]
    ELSE [TwinSet(t, TimerStep(t, t.timers[1], p, e, order, mounted)) EXCEPT
            !.timers = <<>>]

TwinClear(t, p, e, order, by) == TwinSet(t, ClearStep(t, p, e, order, by))

TwinIdle(t) == [t EXCEPT !.out = <<>>]

(* -------------------------------- Init --------------------------------- *)

\* The first render: useRef(initialValue), useState(...).
Init ==
    /\ props \in PropsSet
    /\ flushAt \in {"setState", "render"}
    /\ phase = "rendered"
    /\ state = InitialState(props)
    /\ inputValue = props.value
    /\ timers = <<>>
    /\ domFocus = FALSE
    /\ steps = 0
    /\ updates = 0
    /\ lastOp = Op("render", "", <<>>, FALSE)
    /\ burst = NoBurst
    /\ twin = TwinInit(props)
    /\ pending = MountEffects

(* ------------------------------- actions ------------------------------- *)

Self == [state |-> state, inputValue |-> inputValue]

\* The component is rendered and not unmounted.
Live == phase \in {"rendered", "mounted"}

\* A React event handler runs with effects pending (those of the first
\* render included) only where React runs them at the first setState; from
\* 16.9 on React runs them before it dispatches the event (Mount or
\* FlushEffects, then the handler).
HandlerMayRun ==
    /\ Live
    /\ HasEffects(pending) => flushAt = "setState"

\* The passive effects of the first render run, with no handler in between.
Mount ==
    /\ phase = "rendered"
    /\ phase' = "mounted"
    /\ LET r == FlushStep(Self, props, pending)
       IN  /\ inputValue' = r.inputValue
           /\ state' = r.state
           /\ lastOp' = Op("mount", r.tag, r.out, FALSE)
    /\ twin' = TwinEffects(twin, props, pending)
    /\ pending' = NoEffects
    /\ UNCHANGED <<props, timers, domFocus, updates, burst, flushAt>>

\* setFocus(focused), from the <input>'s onFocus / onBlur
SetFocus(focused) ==
    /\ HandlerMayRun
    /\ phase' = "mounted"
    /\ domFocus /= focused
    /\ domFocus' = focused
    /\ LET r == FocusStep(Self, focused, props, pending)
       IN  /\ state' = r.state
           /\ inputValue' = r.inputValue
           /\ lastOp' = Op(IF focused THEN "focus" ELSE "blur", r.tag, r.out, FALSE)
    /\ burst' = BurstOther
    /\ twin' = TwinFocus(twin, focused, props, pending)
    /\ pending' = NoEffects
    /\ UNCHANGED <<props, timers, updates, flushAt>>

\* handleInput(event) with event.target.value = value.  The change event
\* fires when the text differs from the text shown (that of the state before
\* any pending effect has run) and the input is editable.
HandleInput(value) ==
    /\ Live
    /\ phase' = "mounted"
    /\ ~props.readOnly
    /\ value /= Display(state.value)
    /\ burst' = BurstKey(value)
    /\ LET c == BeforeInput(Self, props, pending, flushAt)
           r == InputStep(c, value, props, EffectsInInput(pending, flushAt))
       IN  /\ state' = r.state
           /\ inputValue' = r.inputValue
           /\ lastOp' = Op("input", r.tag, r.out, FALSE)
           /\ timers' = IF props.delay > 0
                        THEN Append(MarkStale(timers), Timer(value, c.state, props))
                        ELSE MarkStale(timers)
    /\ twin' = TwinInput(twin, value, props, pending, flushAt)
    /\ pending' = NoEffects
    /\ UNCHANGED <<props, domFocus, updates, flushAt>>

\* The i-th pending timer elapses.
TimerFire(i) ==
    /\ phase \in {"mounted", "unmounted"}
    /\ i \in DOMAIN timers
    /\ CanFire(i)
    /\ LET t == timers[i]
           r == TimerStep(Self, t, props, pending, flushAt, phase = "mounted")
           flushed == r.tag = "hit" /\ HasEffects(pending)
       IN  /\ state' = r.state
           /\ inputValue' = r.inputValue
           /\ lastOp' = Op("timer", r.tag, r.out, t.stale)
           /\ burst' = BurstFire(r.out)
           /\ twin' = TwinTimer(twin, t.stale, flushed, props, pending, flushAt,
                                phase = "mounted")
           /\ pending' = IF r.tag = "hit" THEN NoEffects ELSE pending
    /\ timers' = Remove(timers, i)
    /\ UNCHANGED <<phase, props, domFocus, updates, flushAt>>

\* handleClear(event), from the tap on the clear button, which is rendered
\* when clearable && value && !readOnly.
HandleClear(by) ==
    /\ IF by = "react" THEN HandlerMayRun ELSE Live
    /\ phase' = "mounted"
    /\ props.clearable /\ Truthy(state.value) /\ ~props.readOnly
    /\ LET r == ClearStep(Self, props, pending, flushAt, by)
       IN  /\ state' = r.state
           /\ inputValue' = r.inputValue
           /\ lastOp' = Op("clear", r.tag, r.out, FALSE)
    /\ burst' = BurstOther
    /\ twin' = TwinClear(twin, props, pending, flushAt, by)
    /\ pending' = NoEffects
    /\ UNCHANGED <<props, timers, domFocus, updates, flushAt>>

\* The parent renders the component with props p (fresh: with a new
\* validation function object).  React runs the effects of the previous
\* render before it renders again; the effects of this render are pending.
UpdateProps(p, fresh) ==
    /\ phase = "mounted"
    /\ ~HasEffects(pending)
    /\ p \in PropsSet
    /\ p /= props \/ fresh
    /\ updates < MaxUpdates
    /\ updates' = updates + 1
    /\ props' = p
    /\ pending' = Effects(props, p, fresh)
    /\ lastOp' = Op("props", EffectsRun(Effects(props, p, fresh)), <<>>, FALSE)
    /\ burst' = BurstOther
    /\ twin' = TwinIdle(twin)
    /\ UNCHANGED <<phase, state, inputValue, timers, domFocus, flushAt>>

\* The pending effects run, with no handler in between.
FlushEffects ==
    /\ phase = "mounted"
    /\ HasEffects(pending)
    /\ LET r == FlushStep(Self, props, pending)
       IN  /\ state' = r.state
           /\ inputValue' = r.inputValue
           /\ lastOp' = Op("effects", r.tag, r.out, FALSE)
    /\ burst' = BurstOther
    /\ twin' = TwinEffects(twin, props, pending)
    /\ pending' = NoEffects
    /\ UNCHANGED <<phase, props, timers, domFocus, updates, flushAt>>

\* React runs pending effects before it commits the unmount.
Unmount ==
    /\ phase = "mounted"
    /\ ~HasEffects(pending)
    /\ phase' = "unmounted"
    /\ lastOp' = Op("unmount", "", <<>>, FALSE)
    /\ burst' = BurstOther
    /\ twin' = TwinIdle(twin)
    /\ UNCHANGED <<props, state, inputValue, timers, domFocus, updates, pending, flushAt>>

\* One event of the environment: the user, a timer or the parent.
Event ==
    \/ \E f \in BOOLEAN : SetFocus(f)
    \/ \E v \in Strings : HandleInput(v)
    \/ \E i \in DOMAIN timers : TimerFire(i)
    \/ \E by \in Deliveries : HandleClear(by)
    \/ \E p \in PropsSet, fresh \in BOOLEAN : UpdateProps(p, fresh)
    \/ Unmount

\* React runs the pending effects of a render on its own.
RunPending ==
    /\ (Mount \/ FlushEffects)
    /\ UNCHANGED steps

Next ==
    \/ RunPending
    \/ /\ steps < MaxSteps
       /\ steps' = steps + 1
       /\ Event

Spec == Init /\ [][Next]_vars

\* Bursts of typing: an editable input with a debounce delay, and only
\* keystrokes and timers after the first render.
InitBurst == Init /\ props.delay > 0 /\ ~props.readOnly

NextBurst ==
    \/ Mount /\ UNCHANGED steps
    \/ /\ steps < MaxBurstSteps
       /\ steps' = steps + 1
       /\ \/ \E v \in Strings : HandleInput(v)
          \/ \E i \in DOMAIN timers : TimerFire(i)

SpecBurst == InitBurst /\ [][NextBurst]_vars

\* handleClear called as a function in every state of the rendered
\* component, whether or not the clear button is rendered there: with
\* readOnly it returns before its setState, so pending effects stay pending.
CallHandleClear(by) ==
    /\ IF by = "react" THEN HandlerMayRun ELSE Live
    /\ phase' = IF props.readOnly THEN phase ELSE "mounted"
    /\ LET r == ClearStep(Self, props, pending, flushAt, by)
       IN  /\ state' = r.state
           /\ inputValue' = r.inputValue
           /\ lastOp' = Op("clear", r.tag, r.out, FALSE)
    /\ burst' = BurstOther
    /\ twin' = TwinClear(twin, props, pending, flushAt, by)
    /\ pending' = IF props.readOnly THEN pending ELSE NoEffects
    /\ UNCHANGED <<props, timers, domFocus, updates, flushAt>>

NextClear ==
    \/ RunPending
    \/ /\ steps < MaxSteps
       /\ steps' = steps + 1
       /\ (Event \/ \E by \in Deliveries : CallHandleClear(by))

SpecClear == Init /\ [][NextClear]_vars


(* ------------------------------- claims -------------------------------- *)

\* The validity rule of the specification: the validator decides a
\* non-empty value, the required flag decides an empty one.
ValidityOf(v, f, required) ==
    IF v /= Undefined /\ Len(v) > 0 THEN validation(f, v) ELSE ~required

\* The pending timer whose firing is the step from the current state.
Fired(i) ==
    /\ i \in DOMAIN timers
    /\ CanFire(i)
    /\ lastOp'.kind = "timer"
    /\ timers' = Remove(timers, i)

\* C1: a timer that fires after a later keystroke has arrived is a no-op:
\* it changes no state and invokes no callback.
LastKeystrokeWins ==
    [][ (lastOp'.kind = "timer" /\ lastOp'.stale)
          => (state' = state /\ lastOp'.out = <<>>) ]_vars

\* C2: once every timer of a burst of keystrokes has fired, onValueChange
\* has been invoked exactly once for the burst, with the last keystroke's
\* value and its validity.
BurstCommitsOnce ==
    (burst.clean /\ timers = <<>> /\ lastOp.kind = "timer")
      => burst.calls = << Call("onValueChange", burst.last,
                               ValidityOf(burst.last, props.validation,
                                          props.required)) >>

\* C3: a timer of a mounted component that fires with the value in
\* inputValue.current sets typing to false, value to the fired value and
\* valid to the validity of that value (validator and required flag as bound
\* in the handler that armed the timer), and invokes onValueChange exactly
\* once with that value and validity.
CommitRule ==
    [][ \A i \in DOMAIN timers :
          (Fired(i) /\ phase = "mounted" /\ timers[i].value = inputValue)
            => LET v == timers[i].value
                   ok == ValidityOf(v, timers[i].props.validation,
                                    timers[i].props.required)
               IN  /\ state'.typing = FALSE
                   /\ state'.value = v
                   /\ state'.valid = ok
                   /\ lastOp'.out = << Call("onValueChange", v, ok) >> ]_vars

\* C4: in every state of the mounted component valid is the validity of
\* value under the current validator and required flag: the validator applied
\* to a non-empty value, NOT required for an empty one.
ValidTracksValue ==
    phase = "mounted"
      => state.valid = ValidityOf(state.value, props.validation, props.required)

\* C5: the update that changes the value prop to w sets state.value to w,
\* state.valid to the validity of w under the new validator and required
\* flag, and inputValue.current to w, arming no timer.
ValuePropOverwritesState ==
    [][ (lastOp'.kind = "effects" /\ pending.value)
          => /\ state'.value = props.value
             /\ state'.valid = ValidityOf(props.value, props.validation,
                                          props.required)
             /\ inputValue' = props.value
             /\ timers' = timers ]_vars

\* C6: the update that changes required or the validator recomputes valid
\* for the current state.value, leaving value, typing and focused as they
\* were, arming no timer and invoking no callback; a focus or a blur that
\* comes before the effect has run does not undo it.
RevalidateOnCheckChange ==
    [][ /\ (lastOp'.kind = "effects" /\ pending.check)
            => /\ state' = [state EXCEPT !.valid =
                              ValidityOf(state.value, props.validation,
                                         props.required)]
               /\ timers' = timers
               /\ lastOp'.out = <<>>
        /\ (lastOp'.kind \in {"focus", "blur"} /\ pending.check)
            => /\ state'.valid = ValidityOf(state.value, props.validation,
                                            props.required)
               /\ state'.value = state.value
               /\ state'.typing = state.typing ]_vars

\* C7: validate of an empty value is NOT required for every validator, and
\* the state after the mount (once the effects of the first render have
\* run, on their own or inside the first focus) has the initial value, with
\* valid = NOT required for an empty initial value and valid =
\* validator(initial value) otherwise.
EmptyValueRule ==
    [][ /\ \A f \in Validators, r \in BOOLEAN, e \in {<<>>, Undefined} :
              validate(e, [props EXCEPT !.validation = f, !.required = r]) = ~r
        /\ (phase = "rendered" /\ lastOp'.kind \in {"mount", "focus"})
            => /\ state'.value = props.value
               /\ state'.valid = IF props.value \in {<<>>, Undefined}
                                 THEN ~props.required
                                 ELSE validation(props.validation, props.value)
      ]_vars

\* C8: handleClear with readOnly set changes neither the state nor
\* inputValue.current and invokes no callback.
ReadOnlyClearNoOp ==
    [][ (lastOp'.kind = "clear" /\ props.readOnly)
          => /\ state' = state
             /\ inputValue' = inputValue
             /\ timers' = timers
             /\ lastOp'.out = <<>> ]_vars

ReadOnlyClearNoOpWitness ==
    /\ lastOp.kind = "clear"
    /\ props.readOnly
    /\ state.value = <<"a", "b", "c">>

FocusContract ==
    [][ /\ lastOp'.kind = "focus"
            => /\ state' = [state EXCEPT !.focused = TRUE]
               /\ lastOp'.out = << Call("onFocus", state.value, state.valid) >>
        /\ lastOp'.kind = "blur"
            => /\ state' = [state EXCEPT !.focused = FALSE]
               /\ lastOp'.out = << Call("onBlur", state.value, state.valid) >>
        /\ (lastOp.kind = "focus" /\ lastOp'.kind = "blur")
            => /\ lastOp'.out[1].value = lastOp.out[1].value
               /\ lastOp'.out[1].valid = lastOp.out[1].valid ]_vars

\* mount, focus, blur
FocusContractWitness ==
    /\ lastOp.kind = "blur"
    /\ steps = 2
    /\ ~state.focused
    /\ lastOp.out = << Call("onBlur", <<"a", "b", "c">>, TRUE) >>

\* C11: a keystroke stores its value in inputValue.current and state.value,
\* sets typing (with a delay > 0) and invokes onInputStart exactly when
\* typing was false; typing goes back to false only in a commit, so
\* onInputStart is not invoked twice without a commit in between.
InputStartOnLeadingEdge ==
    [][ /\ lastOp'.kind = "input"
            => /\ inputValue' = state'.value
               /\ inputValue' \in Strings
               /\ props.delay > 0 => state'.typing
               /\ (Len(lastOp'.out) > 0 /\ lastOp'.out[1] = InputStart)
                    <=> ~state.typing
               /\ \A k \in 2..Len(lastOp'.out) : lastOp'.out[k] /= InputStart
        /\ (state.typing /\ ~state'.typing)
            => \/ lastOp'.kind = "timer" /\ lastOp'.tag = "hit"
               \/ lastOp'.kind = "input" /\ lastOp'.tag = "sync" ]_vars

\* C12: with delay = 0 a keystroke invokes onValueChange once, in its own
\* event, with its value and the validity of that value, arms no timer and
\* leaves value = the keystroke's value, valid = its validity, typing = false.
SynchronousValidation ==
    [][ (lastOp'.kind = "input" /\ props.delay = 0)
          => LET v == inputValue'
                 ok == ValidityOf(v, props.validation, props.required)
                 n == Len(lastOp'.out)
             IN  /\ n > 0
                 /\ lastOp'.out[n] = Call("onValueChange", v, ok)
                 /\ \A k \in 1..(n - 1) : lastOp'.out[k].fn /= "onValueChange"
                 /\ Len(timers') = Len(timers)
                 /\ state'.value = v
                 /\ state'.valid = ok
                 /\ ~state'.typing ]_vars

\* C13: the component and the component that cancels superseded timers,
\* given the same events, are in the same state and have invoked the same
\* callbacks after every event.
CancellationEquivalent ==
    twin.state = state /\ twin.out = lastOp.out

\* C14: every onValueChange call carries the value inputValue.current holds
\* at the call (in a timer the value before the step, in a keystroke the
\* value after it: the call is the last write's successor), and a timer
\* whose value differs from inputValue.current changes no state and invokes
\* no callback.
CommitsOnlyPendingEdit ==
    [][ /\ \A k \in DOMAIN lastOp'.out :
              lastOp'.out[k].fn = "onValueChange"
                => lastOp'.out[k].value =
                     IF lastOp'.kind = "timer" THEN inputValue ELSE inputValue'
        /\ \A i \in DOMAIN timers :
              (Fired(i) /\ timers[i].value /= inputValue)
                => (state' = state /\ lastOp'.out = <<>>) ]_vars

\* a timer superseded by a value-prop change fires as a no-op
CommitsOnlyPendingEditWitness ==
    /\ lastOp.kind = "timer"
    /\ lastOp.tag = "miss"
    /\ ~lastOp.stale
    /\ inputValue = <<"a", "b", "c">>
    /\ state.value = <<"a", "b", "c">>

\* C15: a timer that fires leaves the focused flag as the last focus or blur
\* event set it.
TimerKeepsFocus ==
    [][ lastOp'.kind = "timer" => state'.focused = state.focused ]_vars

\* C16: a timer that fires right after a clear of an editable input leaves
\* state.value empty and does not invoke onValueChange.
ClearNotUndone ==
    [][ (lastOp.kind = "clear" /\ ~props.readOnly /\ lastOp'.kind = "timer")
          => (state'.value = Undefined /\ lastOp'.out = <<>>) ]_vars

\* C17: once no timer is pending, typing is false.
TypingEnds ==
    (phase = "mounted" /\ timers = <<>>) => ~state.typing

\* C18: a commit computes valid with the validator and the required flag of
\* the latest render, and passes that valid to onValueChange.
CommitUsesCurrentProps ==
    [][ \A i \in DOMAIN timers :
          (Fired(i) /\ phase = "mounted" /\ timers[i].value = inputValue)
            => LET ok == ValidityOf(timers[i].value, props.validation,
                                    props.required)
               IN  /\ state'.valid = ok
                   /\ lastOp'.out = << Call("onValueChange", timers[i].value, ok) >>
      ]_vars

\* C19: after the unmount no callback is invoked and the state is not
\* updated.
SilentAfterUnmount ==
    [][ phase = "unmounted" => (lastOp'.out = <<>> /\ state' = state) ]_vars

====
